---- MODULE Spec2Model ----
(***************************************************************************)
(* Model of msal/oauth2cli/authcode.py: obtain_auth_code, browse, the      *)
(* request handler AuthCodeReceiver and the listener                       *)
(* AuthcodeRedirectServer with its receive loop get_auth_code.             *)
(*                                                                         *)
(* The listener inherits from HTTPServer.  What handle_request does around *)
(* the handler is the standard library's behaviour: it waits at most       *)
(* self.timeout for a connection, calls handle_timeout when none arrives,  *)
(* and hands any Exception raised by the handler to handle_error (which    *)
(* logs it and drops the connection) instead of letting it reach the       *)
(* caller of handle_request.  On a closed socket handle_request raises     *)
(* ValueError (Python 3) or IOError (Python 2).                            *)
(***************************************************************************)
EXTENDS Integers, Sequences, FiniteSets, TLC

\* Python's None.
None == "<None>"

\* Python truthiness of an optional string: None and "" are falsy.
Truthy(v) == v # None /\ v # ""

(***************************************************************************)
(* Bounds of the model.                                                    *)
(***************************************************************************)
\* longest query string (number of key=value pairs) of a request
MaxParams == 3
\* longest query string of a request in the obtain_auth_code flow
FlowMaxParams == 1
\* self.timeout (300 seconds in the source), in clock ticks
TimeoutSeconds == 1
\* the clock stops one tick after a full timeout
MaxElapsed == TimeoutSeconds + 1

(***************************************************************************)
(* Requests: the query string of the request path, as the sequence of its  *)
(* key=value pairs.                                                        *)
(***************************************************************************)
Keys == {"code", "state", "text", "link", "exit_hint", "auth_code"}

KeyOrder == <<"code", "state", "text", "link", "exit_hint", "auth_code">>

KeyRank(k) == CHOOSE i \in 1..Len(KeyOrder) : KeyOrder[i] = k

Pairs ==
  {<<"code", "">>, <<"code", "abc">>, <<"code", "def">>,
   <<"state", "xyz">>, <<"state", "wrong">>,
   <<"text", "Login">>, <<"link", "http://e/auth">>,
   <<"exit_hint", "H">>, <<"auth_code", "exit">>}

\* parse_qs groups the values by key, so the relative order of pairs with
\* different keys is immaterial: the queries list the keys in KeyOrder and
\* repeated keys in every order.
QueriesUpTo(n) ==
  UNION {{q \in [1..m -> Pairs] :
            \A i \in 1..(m - 1) : KeyRank(q[i][1]) <= KeyRank(q[i + 1][1])}
         : m \in 0..n}

Queries == QueriesUpTo(MaxParams)

FlowQueries == QueriesUpTo(FlowMaxParams)

\* parse_qs keeping blank values (keep_blank_values on).
ValuesOf_KeepBlank(q, k) ==
  LET F[i \in 0..Len(q)] ==
        IF i = 0 THEN <<>>
        ELSE IF q[i][1] = k
             THEN Append(F[i - 1], q[i][2])
             ELSE F[i - 1]
  IN F[Len(q)]

\* The values of key k in query q, in order, blank values dropped
\* (parse_qs with keep_blank_values off).
ValuesOf(q, k) ==
  LET F[i \in 0..Len(q)] ==
        IF i = 0 THEN <<>>
        ELSE IF q[i][1] = k /\ q[i][2] # ""
             THEN Append(F[i - 1], q[i][2])
             ELSE F[i - 1]
  IN F[Len(q)]

\* The query has code parameters and every one of them has an empty value.
HasBlankCode(q) ==
  /\ \E i \in 1..Len(q) : q[i][1] = "code"
  /\ \A i \in 1..Len(q) : q[i][1] = "code" => q[i][2] = ""

\* qs = parse_qs(urlparse(self.path).query); a key without values maps to <<>>
\* (qs.get(key) is None).
parse_qs(q) == [k \in Keys |-> ValuesOf(q, k)]

\* The first value of each parameter of a decoded query, None when the
\* parameter is absent: what do_GET can read of a request.
FirstValues(qs) == [k \in Keys |-> IF qs[k] = <<>> THEN None ELSE Head(qs[k])]

NoRequest == [k \in Keys |-> None]

\* qs.get(key, [dflt])[0]
First(qs, k, dflt) == IF qs[k] = <<>> THEN dflt ELSE Head(qs[k])

(***************************************************************************)
(* AuthCodeReceiver                                                        *)
(***************************************************************************)
NoResponse == [status |-> 0, content_type |-> "", body |-> ""]

CompleteBody == "Authentication complete. You can close this window"

DefaultBody == "This web service serves your redirect_uri"

\* body.startswith('<')
StartsWithLt(body) == Len(body) > 0 /\ SubSeq(body, 1, 1) = "<"

_send_full_response(body) ==
  [status |-> 200,
   content_type |-> IF StartsWithLt(body) THEN "text/html" ELSE "text/plain",
   body |-> body]

\* '<a href={link}>{text}</a><hr/>{exit_hint}'.format(...)
LandingBody(qs) ==
  "<a href=" \o Head(qs["link"]) \o ">" \o Head(qs["text"]) \o "</a><hr/>"
    \o First(qs, "exit_hint", "")

\* a state check that lets a request without state pass
StateMismatch_OnlyIfPresent(qs, srv_state) ==
  Truthy(srv_state) /\ qs["state"] # <<>> /\ srv_state # Head(qs["state"])

\* The state check of do_GET:
\* self.server.state and self.server.state != qs.get('state', [None])[0]
StateMismatch(qs, srv_state) ==
  Truthy(srv_state) /\ srv_state # First(qs, "state", None)

\* do_GET storing the last code value instead of the first.
do_GET_LastCode(qs, srv_state, srv_auth_code) ==
  IF qs["code"] # <<>>
  THEN IF StateMismatch(qs, srv_state)
       THEN [mode |-> "CodeCapture", auth_code |-> srv_auth_code,
             response |-> NoResponse, raised |-> "ValueError",
             effects |-> <<>>]
       ELSE [mode |-> "CodeCapture",
             auth_code |-> qs["code"][Len(qs["code"])],
             response |-> _send_full_response(CompleteBody),
             raised |-> None, effects |-> <<"auth_code", "response">>]
  ELSE IF qs["text"] # <<>> /\ qs["link"] # <<>>
  THEN [mode |-> "LandingPage", auth_code |-> srv_auth_code,
        response |-> _send_full_response(LandingBody(qs)),
        raised |-> None, effects |-> <<"response">>]
  ELSE [mode |-> "Default", auth_code |-> srv_auth_code,
        response |-> _send_full_response(DefaultBody),
        raised |-> None, effects |-> <<"response">>]

\* do_GET testing for the landing page before the code.
do_GET_LandingFirst(qs, srv_state, srv_auth_code) ==
  IF qs["text"] # <<>> /\ qs["link"] # <<>>
  THEN [mode |-> "LandingPage", auth_code |-> srv_auth_code,
        response |-> _send_full_response(LandingBody(qs)),
        raised |-> None, effects |-> <<"response">>]
  ELSE IF qs["code"] # <<>>
  THEN IF StateMismatch(qs, srv_state)
       THEN [mode |-> "CodeCapture", auth_code |-> srv_auth_code,
             response |-> NoResponse, raised |-> "ValueError",
             effects |-> <<>>]
       ELSE [mode |-> "CodeCapture", auth_code |-> Head(qs["code"]),
             response |-> _send_full_response(CompleteBody),
             raised |-> None, effects |-> <<"auth_code", "response">>]
  ELSE [mode |-> "Default", auth_code |-> srv_auth_code,
        response |-> _send_full_response(DefaultBody),
        raised |-> None, effects |-> <<"response">>]

\* do_GET storing the code before it checks the state.
do_GET_StoreBeforeCheck(qs, srv_state, srv_auth_code) ==
  IF qs["code"] # <<>>
  THEN IF StateMismatch(qs, srv_state)
       THEN [mode |-> "CodeCapture", auth_code |-> Head(qs["code"]),
             response |-> NoResponse, raised |-> "ValueError",
             effects |-> <<"auth_code">>]
       ELSE [mode |-> "CodeCapture", auth_code |-> Head(qs["code"]),
             response |-> _send_full_response(CompleteBody),
             raised |-> None, effects |-> <<"auth_code", "response">>]
  ELSE IF qs["text"] # <<>> /\ qs["link"] # <<>>
  THEN [mode |-> "LandingPage", auth_code |-> srv_auth_code,
        response |-> _send_full_response(LandingBody(qs)),
        raised |-> None, effects |-> <<"response">>]
  ELSE [mode |-> "Default", auth_code |-> srv_auth_code,
        response |-> _send_full_response(DefaultBody),
        raised |-> None, effects |-> <<"response">>]

\* do_GET taking the auth_code parameter of the exit hint for a code.
do_GET_AuthCodeParam(qs, srv_state, srv_auth_code) ==
  IF qs["code"] # <<>> \/ qs["auth_code"] # <<>>
  THEN IF StateMismatch(qs, srv_state)
       THEN [mode |-> "CodeCapture", auth_code |-> srv_auth_code,
             response |-> NoResponse, raised |-> "ValueError",
             effects |-> <<>>]
       ELSE [mode |-> "CodeCapture",
             auth_code |-> Head(qs["code"] \o qs["auth_code"]),
             response |-> _send_full_response(CompleteBody),
             raised |-> None, effects |-> <<"auth_code", "response">>]
  ELSE IF qs["text"] # <<>> /\ qs["link"] # <<>>
  THEN [mode |-> "LandingPage", auth_code |-> srv_auth_code,
        response |-> _send_full_response(LandingBody(qs)),
        raised |-> None, effects |-> <<"response">>]
  ELSE [mode |-> "Default", auth_code |-> srv_auth_code,
        response |-> _send_full_response(DefaultBody),
        raised |-> None, effects |-> <<"response">>]

\* do_GET answering 400 before it raises on a state mismatch.
do_GET_Respond400(qs, srv_state, srv_auth_code) ==
  IF qs["code"] # <<>>
  THEN IF StateMismatch(qs, srv_state)
       THEN [mode |-> "CodeCapture", auth_code |-> srv_auth_code,
             response |-> [status |-> 400, content_type |-> "text/plain",
                           body |-> "State does not match"],
             raised |-> "ValueError", effects |-> <<"response">>]
       ELSE [mode |-> "CodeCapture", auth_code |-> Head(qs["code"]),
             response |-> _send_full_response(CompleteBody),
             raised |-> None, effects |-> <<"auth_code", "response">>]
  ELSE IF qs["text"] # <<>> /\ qs["link"] # <<>>
  THEN [mode |-> "LandingPage", auth_code |-> srv_auth_code,
        response |-> _send_full_response(LandingBody(qs)),
        raised |-> None, effects |-> <<"response">>]
  ELSE [mode |-> "Default", auth_code |-> srv_auth_code,
        response |-> _send_full_response(DefaultBody),
        raised |-> None, effects |-> <<"response">>]

\* do_GET on the decoded query qs with the server's state and auth_code:
\* the branch it takes, the auth_code it leaves, the response it writes,
\* the exception it raises and its effects (write of auth_code, response)
\* in the order of the code.
do_GET(qs, srv_state, srv_auth_code) ==
  IF qs["code"] # <<>>
  THEN IF StateMismatch(qs, srv_state)
       THEN [mode |-> "CodeCapture", auth_code |-> srv_auth_code,
             response |-> NoResponse, raised |-> "ValueError",
             effects |-> <<>>]
       ELSE [mode |-> "CodeCapture", auth_code |-> Head(qs["code"]),
             response |-> _send_full_response(CompleteBody),
             raised |-> None, effects |-> <<"auth_code", "response">>]
  ELSE IF qs["text"] # <<>> /\ qs["link"] # <<>>
  THEN [mode |-> "LandingPage", auth_code |-> srv_auth_code,
        response |-> _send_full_response(LandingBody(qs)),
        raised |-> None, effects |-> <<"response">>]
  ELSE [mode |-> "Default", auth_code |-> srv_auth_code,
        response |-> _send_full_response(DefaultBody),
        raised |-> None, effects |-> <<"response">>]

(***************************************************************************)
(* State                                                                   *)
(***************************************************************************)
VARIABLES
  pc,             \* where obtain_auth_code / get_auth_code stands
  listen_port,    \* arguments of obtain_auth_code
  auth_uri,
  text,
  request_state,
  lookups,        \* the webbrowser.get calls made by browse, with their outcome
  opened,         \* the controller.open calls made by browse
  exc,            \* the exception that left obtain_auth_code / get_auth_code
  socket,         \* the listening socket: "none", "open" or "closed"
  releases,       \* how many times the listening socket has been closed
  close_calls,    \* how many times server_close has been called
  state,          \* AuthcodeRedirectServer.state
  auth_code,      \* AuthcodeRedirectServer.auth_code
  timeout,        \* AuthcodeRedirectServer.timeout
  req,            \* first value of each parameter of the last request handled
  mode,           \* branch do_GET took for the last request handled
  response,       \* response written for the last request handled
  raised,         \* exception raised by do_GET for the last request handled
  effects,        \* what do_GET did for the last request handled, in order
  blank_code,     \* the last request handled had code parameters, all empty
  last_event,     \* how the last handle_request ended: "none", "request",
                  \* "timeout" or "interrupt"
  elapsed,        \* ticks since get_auth_code was entered
  waited,         \* ticks since the current handle_request was entered
  idle,           \* ticks since get_auth_code was entered or a request was handled
  timed_out,      \* handle_timeout has run
  exit_via,       \* how the receive loop ended
  result,         \* value returned by get_auth_code / obtain_auth_code
  captures,       \* number of writes to auth_code by do_GET
  mismatch_seen   \* a request has been rejected for state mismatch

flowVars == <<listen_port, auth_uri, text, request_state, lookups, opened>>

socketVars == <<socket, releases, close_calls>>

sessionVars == <<state, auth_code, timeout>>

requestVars ==
  <<req, mode, response, raised, effects, blank_code, captures, mismatch_seen>>

clockVars == <<elapsed, waited, idle>>

vars == <<pc, flowVars, exc, socketVars, sessionVars, requestVars, last_event,
          clockVars, timed_out, exit_via, result>>

\* Values of the arguments.
ListenPort == "8400"

AuthUris == {None, "https://login/authorize"}

Texts == {None, "Sign in"}

RequestStates == {None, "", "xyz"}

(***************************************************************************)
(* The listening socket                                                    *)
(***************************************************************************)
Sock == [socket |-> socket, releases |-> releases, close_calls |-> close_calls]

SetSock(l) ==
  /\ socket' = l.socket
  /\ releases' = l.releases
  /\ close_calls' = l.close_calls

\* server_close(): closes the socket; closing a closed socket does nothing.
server_close(l) ==
  [socket |-> "closed",
   releases |-> IF l.socket = "open" THEN l.releases + 1 ELSE l.releases,
   close_calls |-> l.close_calls + 1]

\* handle_timeout leaving the server open.
handle_timeout_NoClose(l) == l

\* AuthcodeRedirectServer.handle_timeout
handle_timeout(l) == server_close(l)

\* get_auth_code without the finally clause.
get_auth_code_finally_Skip(l) == l

\* the finally clause of get_auth_code
get_auth_code_finally(l) == server_close(l)

\* a loop that does not look at auth_code: while True
loop_condition_Always(code) == TRUE

\* while not self.auth_code
loop_condition(code) == ~Truthy(code)

\* The exceptions get_auth_code catches around handle_request to break.
BreakExceptions == {"ValueError", "IOError"}

\* Exception subclasses raised by the handler are given to handle_error by
\* handle_request; they do not reach get_auth_code.
HandlerExceptions == {"ValueError", "IOError"}

handle_error_swallows(e) == e \in HandlerExceptions

\* handle_request on a closed socket raises ValueError under Python 3 and
\* IOError under Python 2.
ClosedSocketExceptions == {"ValueError", "IOError"}

(***************************************************************************)
(* browse and the landing page of obtain_auth_code                         *)
(***************************************************************************)
\* the browsers browse asks for by name, in its order
Preferred == <<"chrome", "firefox", "safari", "windows-default">>

\* urllib's quote_plus of one character
QuoteChar(c) ==
  CASE c = " " -> "+"
    [] c = ":" -> "%3A"
    [] c = "/" -> "%2F"
    [] c = "?" -> "%3F"
    [] c = "=" -> "%3D"
    [] c = "&" -> "%26"
    [] OTHER -> c

RECURSIVE quote_plus(_)
quote_plus(s) ==
  IF Len(s) = 0 THEN ""
  ELSE QuoteChar(SubSeq(s, 1, 1)) \o quote_plus(SubSeq(s, 2, Len(s)))

\* str(v) as urlencode applies it to a value
Str(v) == IF v = None THEN "None" ELSE v

\* "Visit http://localhost:{p}?auth_code=exit to abort".format(p=listen_port)
ExitHint(p) == "Visit http://localhost:" \o p \o "?auth_code=exit to abort"

\* "http://localhost:{p}?{q}" with q = urlencode({text, link, exit_hint})
LandingPage(p, txt, uri) ==
  "http://localhost:" \o p \o "?text=" \o quote_plus(Str(txt))
    \o "&link=" \o quote_plus(Str(uri))
    \o "&exit_hint=" \o quote_plus(ExitHint(p))

\* The page obtain_auth_code hands to browse.
BrowseTarget(p, txt, uri) ==
  IF Truthy(txt) THEN LandingPage(p, txt, uri) ELSE uri

\* The named lookups of browse's for loop when the browsers of avail can be
\* found: it stops at the first one found.
RECURSIVE NamedLookups(_, _)
NamedLookups(i, avail) ==
  IF i > Len(Preferred) THEN <<>>
  ELSE IF Preferred[i] \in avail
       THEN <<[using |-> Preferred[i], found |-> TRUE]>>
       ELSE <<[using |-> Preferred[i], found |-> FALSE]>>
              \o NamedLookups(i + 1, avail)

\* The controller browse ends up with: the last one found.
Controller(ls) ==
  LET hits == {i \in 1..Len(ls) : ls[i].found}
  IN ls[CHOOSE i \in hits : \A j \in hits : j <= i].using

\* browse(uri): webbrowser.get() raises webbrowser.Error when no browser at
\* all can be found (default_ok false); controller.open reports failure by
\* its return value, which browse ignores.
browse(uri, default_ok, avail, open_ok) ==
  IF ~default_ok
  THEN [lookups |-> <<[using |-> "default", found |-> FALSE]>>,
        opened |-> <<>>,
        raised |-> "webbrowser.Error"]
  ELSE LET ls == <<[using |-> "default", found |-> TRUE]>>
                   \o NamedLookups(1, avail)
       IN [lookups |-> ls,
           opened |-> <<[controller |-> Controller(ls), uri |-> uri,
                         ok |-> open_ok]>>,
           raised |-> None]

(***************************************************************************)
(* The receive loop of get_auth_code                                       *)
(***************************************************************************)
\* get_auth_code falling off its end without returning self.auth_code.
ExitLoop_ReturnsNone(l, via, code) ==
  /\ SetSock(get_auth_code_finally(l))
  /\ pc' = "returned"
  /\ exit_via' = via
  /\ result' = None
  /\ UNCHANGED <<exc, waited>>

\* The loop is left normally or by break: the finally clause runs and
\* self.auth_code is returned.
ExitLoop(l, via, code) ==
  /\ SetSock(get_auth_code_finally(l))
  /\ pc' = "returned"
  /\ exit_via' = via
  /\ result' = code
  /\ UNCHANGED <<exc, waited>>

\* An exception get_auth_code does not catch leaves it through the finally
\* clause.
Escape(l, e) ==
  /\ SetSock(get_auth_code_finally(l))
  /\ pc' = "raised"
  /\ exit_via' = "escaped"
  /\ exc' = e
  /\ UNCHANGED <<result, waited>>

\* handle_request raised e into the loop body.
AfterRaise(l, e, code) ==
  IF e \in BreakExceptions THEN ExitLoop(l, e, code) ELSE Escape(l, e)

\* a loop whose waits share the deadline of the first one
NextIteration_SharedDeadline(l, code) ==
  IF ~loop_condition(code)
  THEN ExitLoop(l, "condition", code)
  ELSE IF l.socket = "open"
       THEN /\ SetSock(l)
            /\ pc' = "waiting"
            /\ UNCHANGED <<exc, exit_via, result, waited>>
       ELSE \E e \in ClosedSocketExceptions : AfterRaise(l, e, code)

\* The loop test and, when it holds, the next call of handle_request.
NextIteration(l, code) ==
  IF ~loop_condition(code)
  THEN ExitLoop(l, "condition", code)
  ELSE IF l.socket = "open"
       THEN /\ SetSock(l)
            /\ pc' = "waiting"
            /\ waited' = 0
            /\ UNCHANGED <<exc, exit_via, result>>
       ELSE \E e \in ClosedSocketExceptions : AfterRaise(l, e, code)

\* handle_request is over, the handler having raised e (None: nothing).
AfterHandler(l, e, code) ==
  IF e = None \/ handle_error_swallows(e)
  THEN NextIteration(l, code)
  ELSE AfterRaise(l, e, code)

(***************************************************************************)
(* Initial states                                                          *)
(***************************************************************************)
\* __init__ setting a longer timeout.
ServerInit_LongTimeout(rs) ==
  [state |-> rs, auth_code |-> None, timeout |-> TimeoutSeconds + 1]

\* AuthcodeRedirectServer.__init__ after the socket is bound
ServerInit(rs) == [state |-> rs, auth_code |-> None, timeout |-> TimeoutSeconds]

NothingHandled ==
  /\ req = NoRequest
  /\ mode = "none"
  /\ response = NoResponse
  /\ raised = None
  /\ effects = <<>>
  /\ blank_code = FALSE
  /\ last_event = "none"
  /\ elapsed = 0
  /\ waited = 0
  /\ idle = 0
  /\ timed_out = FALSE
  /\ exit_via = "none"
  /\ result = None
  /\ exc = None
  /\ captures = 0
  /\ mismatch_seen = FALSE

\* A listener just constructed: AuthcodeRedirectServer(port, request_state).
Init ==
  /\ pc = "constructed"
  /\ listen_port = ListenPort
  /\ auth_uri = None
  /\ text = None
  /\ request_state \in RequestStates
  /\ lookups = <<>>
  /\ opened = <<>>
  /\ socket = "open"
  /\ releases = 0
  /\ close_calls = 0
  /\ state = ServerInit(request_state).state
  /\ auth_code = ServerInit(request_state).auth_code
  /\ timeout = ServerInit(request_state).timeout
  /\ NothingHandled

\* obtain_auth_code(listen_port, auth_uri, text, request_state) is called.
InitFlow ==
  /\ pc = "start"
  /\ listen_port = ListenPort
  /\ auth_uri \in AuthUris
  /\ text \in Texts
  /\ request_state \in RequestStates
  /\ lookups = <<>>
  /\ opened = <<>>
  /\ socket = "none"
  /\ releases = 0
  /\ close_calls = 0
  /\ state = None
  /\ auth_code = None
  /\ timeout = 0
  /\ NothingHandled

(***************************************************************************)
(* Actions                                                                 *)
(***************************************************************************)
\* obtain_auth_code binding the port before it calls browse.
Browse_AfterBind ==
  /\ pc = "start"
  /\ \E default_ok \in BOOLEAN, avail \in SUBSET {Preferred[i] : i \in 1..Len(Preferred)},
        open_ok \in BOOLEAN :
       LET b == browse(BrowseTarget(listen_port, text, auth_uri),
                       default_ok, avail, open_ok)
       IN /\ lookups' = b.lookups
          /\ opened' = b.opened
          /\ exc' = b.raised
          /\ pc' = IF b.raised = None THEN "browsed" ELSE "raised"
  /\ socket' = "open"
  /\ UNCHANGED <<listen_port, auth_uri, text, request_state, releases,
                 close_calls, sessionVars, requestVars, last_event, clockVars,
                 timed_out, exit_via, result>>

\* obtain_auth_code, up to the return of browse
Browse ==
  /\ pc = "start"
  /\ \E default_ok \in BOOLEAN, avail \in SUBSET {Preferred[i] : i \in 1..Len(Preferred)},
        open_ok \in BOOLEAN :
       LET b == browse(BrowseTarget(listen_port, text, auth_uri),
                       default_ok, avail, open_ok)
       IN /\ lookups' = b.lookups
          /\ opened' = b.opened
          /\ exc' = b.raised
          /\ pc' = IF b.raised = None THEN "browsed" ELSE "raised"
  /\ UNCHANGED <<listen_port, auth_uri, text, request_state, socketVars,
                 sessionVars, requestVars, last_event, clockVars, timed_out,
                 exit_via, result>>

\* obtain_auth_code catching the bind failure and returning None.
Construct_CatchBind ==
  /\ pc = "browsed"
  /\ \E bind_ok \in BOOLEAN :
       IF bind_ok
       THEN /\ socket' = "open"
            /\ state' = ServerInit(request_state).state
            /\ auth_code' = ServerInit(request_state).auth_code
            /\ timeout' = ServerInit(request_state).timeout
            /\ pc' = "constructed"
            /\ exc' = exc
       ELSE /\ pc' = "returned"
            /\ exc' = "OSError"
            /\ UNCHANGED <<socket, sessionVars>>
  /\ UNCHANGED <<flowVars, releases, close_calls, requestVars, last_event,
                 clockVars, timed_out, exit_via, result>>

\* server = AuthcodeRedirectServer(int(listen_port), request_state); binding
\* the port can fail.
Construct ==
  /\ pc = "browsed"
  /\ \E bind_ok \in BOOLEAN :
       IF bind_ok
       THEN /\ socket' = "open"
            /\ state' = ServerInit(request_state).state
            /\ auth_code' = ServerInit(request_state).auth_code
            /\ timeout' = ServerInit(request_state).timeout
            /\ pc' = "constructed"
            /\ exc' = exc
       ELSE /\ pc' = "raised"
            /\ exc' = "OSError"
            /\ UNCHANGED <<socket, sessionVars>>
  /\ UNCHANGED <<flowVars, releases, close_calls, requestVars, last_event,
                 clockVars, timed_out, exit_via, result>>

\* get_auth_code is entered: the loop test and the first handle_request.
Enter ==
  /\ pc = "constructed"
  /\ elapsed' = 0
  /\ idle' = 0
  /\ NextIteration(Sock, auth_code)
  /\ UNCHANGED <<flowVars, sessionVars, requestVars, last_event, timed_out>>

\* A request with query q arrives while handle_request waits: do_GET handles
\* it, handle_request returns and the loop goes on.
Request(q) ==
  /\ pc = "waiting"
  /\ \E p \in {parse_qs(q)} :
       \E d \in {do_GET(p, state, auth_code)} :
         /\ req' = FirstValues(p)
         /\ mode' = d.mode
         /\ auth_code' = d.auth_code
         /\ response' = d.response
         /\ raised' = d.raised
         /\ effects' = d.effects
         /\ blank_code' = HasBlankCode(q)
         /\ captures' = IF d.mode = "CodeCapture" /\ d.raised = None
                        THEN captures + 1 ELSE captures
         /\ mismatch_seen' = (mismatch_seen \/ d.raised = "ValueError")
         /\ AfterHandler(Sock, d.raised, d.auth_code)
  /\ last_event' = "request"
  /\ idle' = 0
  /\ UNCHANGED <<flowVars, state, timeout, elapsed, timed_out>>

\* A tick passes while handle_request waits for a connection.
Tick ==
  /\ pc = "waiting"
  /\ waited < timeout
  /\ elapsed < MaxElapsed
  /\ elapsed' = elapsed + 1
  /\ waited' = waited + 1
  /\ idle' = idle + 1
  /\ UNCHANGED <<pc, flowVars, exc, socketVars, sessionVars, requestVars,
                 last_event, timed_out, exit_via, result>>

\* No connection within self.timeout: handle_request calls handle_timeout
\* and returns, and the loop goes on.
HandleTimeout ==
  /\ pc = "waiting"
  /\ waited >= timeout
  /\ timed_out' = TRUE
  /\ last_event' = "timeout"
  /\ NextIteration(handle_timeout(Sock), auth_code)
  /\ UNCHANGED <<flowVars, sessionVars, requestVars, elapsed, idle>>

\* An exception that is neither ValueError nor IOError (KeyboardInterrupt)
\* leaves handle_request while it waits.
Interrupt ==
  /\ pc = "waiting"
  /\ AfterRaise(Sock, "KeyboardInterrupt", auth_code)
  /\ last_event' = "interrupt"
  /\ UNCHANGED <<flowVars, sessionVars, requestVars, elapsed, idle, timed_out>>

Next ==
  \/ Enter
  \/ \E q \in Queries : Request(q)
  \/ Tick
  \/ HandleTimeout
  \/ Interrupt

NextFlow ==
  \/ Browse
  \/ Construct
  \/ Enter
  \/ \E q \in FlowQueries : Request(q)
  \/ Tick
  \/ HandleTimeout
  \/ Interrupt

\* The listener, from its construction.
Spec == Init /\ [][Next]_vars

\* obtain_auth_code, from its call.
SpecFlow == InitFlow /\ [][NextFlow]_vars

(***************************************************************************)
(* States of the listener                                                  *)
(***************************************************************************)
Listening == pc = "waiting"

\* The loop ended because its condition saw a code.
Captured == pc = "returned" /\ exit_via = "condition"

\* The loop was broken by an exception out of handle_request after a
\* request was handled.
Aborted ==
  pc = "returned" /\ exit_via \in BreakExceptions /\ last_event = "request"

\* The loop was broken after handle_timeout closed the server.
TimedOut ==
  pc = "returned" /\ exit_via \in BreakExceptions /\ last_event = "timeout"

\* This step is handle_request handling a request.
RequestStep == pc = "waiting" /\ last_event' = "request" /\ idle' = 0

(***************************************************************************)
(* Properties                                                              *)
(***************************************************************************)

\* C1: once a request that carries a code has been handled, with the
\* expected state absent or empty or equal to the request's first state
\* value, auth_code is the request's first code value, the loop has ended in
\* Captured with that request as the last one handled, and get_auth_code
\* has returned that value.
C1_CodeCaptured ==
  (/\ last_event = "request"
   /\ req["code"] # None
   /\ (~Truthy(state) \/ req["state"] = state))
    => (/\ auth_code = req["code"]
        /\ Captured
        /\ result = req["code"])

C1_Witness ==
  /\ Captured
  /\ state = "xyz"
  /\ req["state"] = "xyz"
  /\ req["code"] = "abc"
  /\ result = "abc"

\* C2: once a request that carries a code has been rejected for state
\* mismatch, the loop has ended in Aborted right after that request and no
\* code is captured.
C2_MismatchAborts ==
  mismatch_seen => (Aborted /\ raised = "ValueError" /\ auth_code = None)

C4_WrittenOnce ==
  [][/\ (auth_code' # auth_code => (auth_code = None /\ captures = 0))
     /\ captures' <= 1]_vars

C4_Witness == captures = 1 /\ auth_code = "def" /\ pc = "returned"

\* C5: the listening socket is closed exactly once on every way out of
\* get_auth_code (Captured, Aborted, TimedOut, an exception that escapes),
\* is open until then, and is never closed more than once.
C5_ReleasedOnce ==
  /\ releases <= 1
  /\ pc \in {"returned", "raised"} => (socket = "closed" /\ releases = 1)
  /\ pc \in {"constructed", "waiting"} => (socket = "open" /\ releases = 0)

C5_Witness == TimedOut /\ close_calls = 2 /\ releases = 1 /\ socket = "closed"

C7_BrowseNeverRaises == ~(pc = "raised" /\ exc = "webbrowser.Error")

\* C8 (as stated): while get_auth_code is still waiting, no more than
\* timeout_seconds have passed since it started waiting.
C8_TotalWaitBounded == Listening => elapsed <= TimeoutSeconds

\* C8 (amended): while get_auth_code is still waiting, no more than
\* timeout_seconds have passed since it started waiting or since the last
\* request was handled.
C8_IdleWaitBounded == Listening => idle <= TimeoutSeconds

C8_Witness ==
  /\ Listening
  /\ elapsed > TimeoutSeconds
  /\ idle = TimeoutSeconds
  /\ mode \in {"LandingPage", "Default"}

\* C9: the branch taken for a request is CodeCapture when it carries a code
\* (whatever else it carries), LandingPage when it carries no code but text
\* and link, Default otherwise; in Default the response is 200 with the
\* body "This web service serves your redirect_uri".
C9_ModeOf(r) ==
  IF r["code"] # None THEN "CodeCapture"
  ELSE IF r["text"] # None /\ r["link"] # None THEN "LandingPage"
  ELSE "Default"

C9_ModeIsFunctionOfParams ==
  mode # "none" =>
    /\ mode = C9_ModeOf(req)
    /\ mode = "Default" =>
         (/\ response.status = 200
          /\ response.body = "This web service serves your redirect_uri")

C9_Witness ==
  /\ mode = "CodeCapture"
  /\ req["text"] # None
  /\ req["link"] # None

\* C10: auth_code, the expected state and the timeout change only in the
\* handling of a code request that passes the state check, which changes
\* auth_code alone; and after a LandingPage or Default request the listener
\* is still Listening.
C10_OnlyCaptureMutates ==
  [][/\ (<<state, auth_code, timeout>>' # <<state, auth_code, timeout>>) =>
          (/\ RequestStep
           /\ mode' = "CodeCapture"
           /\ raised' = None
           /\ (~Truthy(state) \/ req'["state"] = state)
           /\ UNCHANGED <<state, timeout>>)
     /\ (RequestStep /\ mode' \in {"LandingPage", "Default"}) => Listening'
    ]_vars

C10_Witness ==
  /\ Listening
  /\ last_event = "request"
  /\ raised = "ValueError"
  /\ state = "xyz"
  /\ auth_code = None
  /\ timeout = TimeoutSeconds

\* C11: when binding the listening port fails, the OSError of the
\* construction leaves obtain_auth_code: no socket is held, the receive
\* loop is never entered, no request is handled and nothing is returned.
C11_BindFailureSurfaces ==
  exc = "OSError" =>
    /\ pc = "raised"
    /\ socket = "none"
    /\ last_event = "none"
    /\ mode = "none"
    /\ exit_via = "none"
    /\ result = None

C11_Witness ==
  /\ exc = "OSError"
  /\ pc = "raised"
  /\ opened # <<>>
  /\ socket = "none"

\* C12: browse runs and returns while no listener exists: every step that
\* looks up or opens a browser starts at the call of obtain_auth_code and
\* ends with the port still unbound, and once the port is bound no step
\* looks up or opens a browser.
C12_BrowseBeforeListener ==
  [][(lookups' # lookups \/ opened' # opened) =>
       (pc = "start" /\ socket = "none" /\ socket' = "none"
        /\ last_event' = "none")]_vars

C12_Witness ==
  /\ pc = "browsed"
  /\ Truthy(text)
  /\ Len(opened) = 1
  /\ socket = "none"

\* C13: when auth_uri is absent and no text is given, obtain_auth_code
\* looks up and opens no browser.
C13_NoBrowserWithoutUri ==
  (auth_uri = None /\ ~Truthy(text)) => (lookups = <<>> /\ opened = <<>>)

\* C14: when the expected state is non-empty, a set auth_code (and the
\* value returned) is the first code value of a request that passed the
\* state check with its first state value equal to the expected state.
C14_CodeFromMatchingState ==
  (Truthy(state) /\ (auth_code # None \/ result # None)) =>
    (/\ req["state"] = state
     /\ raised = None
     /\ auth_code = req["code"]
     /\ result = req["code"])

C14_Witness ==
  /\ mismatch_seen
  /\ Captured
  /\ state = "xyz"
  /\ req["state"] = "xyz"
  /\ result = "def"

\* C15: the timeout runs per wait: every wait starts at the last activity
\* (the time waited is the time since the listener started or the last
\* request was handled), and the wait times out only after a full timeout
\* without a request.
C15_TimeoutPerWait ==
  /\ Listening => waited = idle
  /\ timed_out => idle = TimeoutSeconds

C15_Witness ==
  /\ TimedOut
  /\ mode \in {"LandingPage", "Default"}
  /\ elapsed > TimeoutSeconds
  /\ idle = TimeoutSeconds

\* C16: once browse has run, it has opened the URI exactly once, with the
\* first of chrome, firefox, safari, windows-default that can be found, or
\* with the default controller when none of the four can.
C16_FirstPreferredOpens ==
  pc # "start" =>
    /\ Len(opened) = 1
    /\ LET named == SubSeq(lookups, 2, Len(lookups))
           hits == {i \in 1..Len(named) : named[i].found}
       IN /\ \A i \in 1..Len(named) : named[i].using = Preferred[i]
          /\ \A i \in 1..Len(named) : named[i].found => i = Len(named)
          /\ hits = {} => (Len(named) = Len(Preferred)
                           /\ opened[1].controller = "default")
          /\ \A i \in hits : opened[1].controller = Preferred[i]

\* C17: a request whose only parameter is auth_code=exit is handled in
\* Default mode, leaves auth_code absent and leaves the listener Listening.
C17_ExitHintIsNoExit ==
  (last_event = "request" /\ req = [NoRequest EXCEPT !["auth_code"] = "exit"]) =>
    (/\ mode = "Default"
     /\ response.body = DefaultBody
     /\ auth_code = None
     /\ Listening)

C17_Witness ==
  /\ last_event = "request"
  /\ req = [NoRequest EXCEPT !["auth_code"] = "exit"]
  /\ ~blank_code
  /\ Listening
  /\ waited = 0

\* C18: a code request rejected for state mismatch gets no response; a
\* response is written exactly for the requests do_GET does not reject; on
\* the capture path auth_code is written before the response is sent.
C18_NoResponseOnMismatch ==
  mode # "none" =>
    /\ raised = "ValueError" => (response = NoResponse /\ effects = <<>>)
    /\ raised = None =>
         (/\ response.status = 200
          /\ effects[Len(effects)] = "response")
    /\ (mode = "CodeCapture" /\ raised = None) =>
         (/\ effects = <<"auth_code", "response">>
          /\ response.body = "Authentication complete. You can close this window")

C18_Witness ==
  /\ mode = "CodeCapture"
  /\ raised = "ValueError"
  /\ response = NoResponse
  /\ req["state"] = "wrong"

\* C19: auth_code is absent or a non-empty string; a request whose code
\* parameters are all empty is handled as LandingPage or Default and writes
\* nothing; after a write of auth_code the loop condition is false and the
\* loop has ended.
C19_CodeNeverEmpty ==
  /\ auth_code = None \/ Truthy(auth_code)
  /\ (last_event = "request" /\ blank_code) =>
       (mode \in {"LandingPage", "Default"} /\ auth_code = None)
  /\ captures > 0 => (~loop_condition(auth_code) /\ pc = "returned")

C19_Witness ==
  /\ blank_code
  /\ mode = "LandingPage"
  /\ Listening
  /\ auth_code = None

====
